---- MODULE Spec2Model ----
(***************************************************************************)
(* Model of one run of checkCompatibility (src/src/utils.ts): the manifest *)
(* loader and native scanner (getLocalDepenencies), the remote manifest    *)
(* fetcher (getRemoteDepenencies) and the reconciler.                      *)
(*                                                                         *)
(* JavaScript values are tagged records so that typeof and truthiness are  *)
(* computed as the code computes them.                                     *)
(***************************************************************************)
EXTENDS Integers, Sequences, FiniteSets, TLC

\* ---------------------------------------------------------------- bounds
MaxDeps == 2
MaxRemote == 2

Names == {"A", "B", "C"}
Versions == {"1.0.0", "2.0.0"}

\* ------------------------------------------------------ JavaScript values
Str(s) == [t |-> "string", v |-> s]
Num == [t |-> "number", v |-> "7"]
Undefined == [t |-> "undefined", v |-> ""]
Null == [t |-> "null", v |-> ""]

\* typeof x (typeof null is 'object', typeof [] is 'object')
TypeOf(x) == IF x.t \in {"null", "array"} THEN "object" ELSE x.t

\* !!x
Truthy(x) ==
    CASE x.t = "string" -> x.v # ""
      [] x.t = "number" -> x.v # "0"
      [] x.t \in {"undefined", "null"} -> FALSE
      [] OTHER -> TRUE

SeqsUpTo(S, n) == UNION {[1..k -> S] : k \in 0..n}

Range(s) == {s[i] : i \in 1..Len(s)}

\* ------------------------------------------------------------ file names
\* A file path is a sequence of tokens: "x" is a run of [A-Za-z0-9]
\* characters, "-" a character outside that class, "/" and "." themselves,
\* and an extension word is itself a run of [A-Za-z0-9] characters.
ExtWords == {"java", "swift", "kt", "scala", "js", "json"}
AlnumTokens == {"x"} \cup ExtWords

\* nativeFileRegex = /([A-Za-z0-9]+)\.(java|swift|kt|scala)$/ , .test(f)
nativeFileRegexTest(f) ==
    /\ Len(f) >= 3
    /\ f[Len(f)] \in {"java", "swift", "kt", "scala"}
    /\ f[Len(f) - 1] = "."
    /\ f[Len(f) - 2] \in AlnumTokens

\* Listings promiseFiles can resolve with.
FileListings ==
    { <<>>,
      << <<"x", ".", "js">>, <<"x", ".", "json">> >>,
      << <<"x", ".", "js">>, <<"x", "/", "x", ".", "kt">> >>,
      << <<"x", "/", "-", ".", "swift">>, <<"x", "/", "java">> >>,
      << <<"x", "/", "x", "-", "x", ".", "swift">> >> }

\* files.find(fileName => nativeFileRegex.test(fileName)) is truthy
HasNativeFiles(files) == \E i \in 1..Len(files) : nativeFileRegexTest(files[i])

\* ------------------------------------------------------- the environment
\* Object.entries(dependencies): distinct keys, values of any JSON type.
DependencyValues == {Str(v) : v \in Versions} \cup {Num}

DependencyEntries ==
    {e \in SeqsUpTo([key : {Str(n) : n \in Names}, value : DependencyValues], MaxDeps) :
        \A i, j \in 1..Len(e) : e[i].key = e[j].key => i = j}

\* What JSON.parse('./package.json') can yield.
ManifestValues ==
    {Null, [t |-> "object", dependencies |-> Undefined]}
    \cup {[t |-> "object", dependencies |-> [t |-> "object", entries |-> e]] :
            e \in DependencyEntries}

PackageJsonFiles ==
    {[exists |-> FALSE, parses |-> FALSE, value |-> Undefined],
     [exists |-> TRUE, parses |-> FALSE, value |-> Undefined]}
    \cup {[exists |-> TRUE, parses |-> TRUE, value |-> v] : v \in ManifestValues}

VARIABLES
    packageJson,        \* ./package.json on disk
    nodeModules,        \* existsSync('./node_modules/')
    exitOverride,       \* TRUE: program.error throws; FALSE: it ends the process
    pc,                 \* position of the run of checkCompatibility
    reported,           \* the error conditions reported so far
    scans,              \* the promises made by the .map over the dependencies
    anyInvalid,
    dependenciesObject,
    remoteResponse,     \* what the channels query resolved with
    mappedRemoteNativePackages,
    finalCompatibility

vars == <<packageJson, nodeModules, exitOverride, pc, reported, scans, anyInvalid,
          dependenciesObject, remoteResponse, mappedRemoteNativePackages,
          finalCompatibility>>

NotFetched == [error |-> FALSE, data |-> Undefined]

Init ==
    /\ packageJson \in PackageJsonFiles
    /\ nodeModules \in BOOLEAN
    /\ exitOverride \in BOOLEAN
    /\ pc = "start"
    /\ reported = {}
    /\ scans = <<>>
    /\ anyInvalid = FALSE
    /\ dependenciesObject = <<>>
    /\ remoteResponse = NotFetched
    /\ mappedRemoteNativePackages = <<>>
    /\ finalCompatibility = <<>>

\* p.log.error(...) of the condition `kind`, then program.error(''): the
\* process exits, or (exitOverride) the enclosing async function rejects.
Fail(kind) ==
    /\ pc' = "failed"
    /\ reported' = reported \cup {kind}

\* ------------------------------------------------- getLocalDepenencies
\* The error of the manifest-loading part, "none" when it passes.
\* Mutant of AllValuesAreStrings: the values are not checked.
AllValuesAreStringsUnchecked(entries) == TRUE

\* typeof value === 'string' for every [key, value] of the dependencies.
AllValuesAreStrings(entries) ==
    \A i \in 1..Len(entries) : TypeOf(entries[i].value) = "string"

ManifestError(file, modules) ==
    IF ~file.exists THEN "ManifestMissing"
    ELSE IF ~file.parses THEN "ManifestMalformed"
    ELSE IF file.value.t \in {"null", "undefined"} THEN "TypeError"
    ELSE IF ~Truthy(file.value.dependencies) THEN "DependenciesSectionMissing"
    ELSE IF ~AllValuesAreStrings(file.value.dependencies.entries)
        THEN "DependencyValueInvalid"
    ELSE IF ~modules THEN "InstalledPackagesMissing"
    ELSE "none"

\* Mutant of StartScan: a dependency whose folder is missing is skipped as
\* non-native instead of invalidating the run.
StartScanSkipsMissing(entry, dependencyFolderExists) ==
    IF ~dependencyFolderExists
    THEN [folderExists |-> FALSE, invalid |-> FALSE, state |-> "fulfilled",
          value |-> [name |-> entry.key, version |-> entry.value, native |-> FALSE]]
    ELSE [folderExists |-> TRUE, invalid |-> FALSE, state |-> "pending",
          value |-> [name |-> entry.key, version |-> entry.value]]

\* The synchronous part of the callback given to .map for one dependency.
StartScan(entry, dependencyFolderExists) ==
    IF ~dependencyFolderExists
    THEN [folderExists |-> FALSE, invalid |-> TRUE, state |-> "fulfilled",
          value |-> [name |-> entry.key, version |-> entry.value]]
    ELSE [folderExists |-> TRUE, invalid |-> FALSE, state |-> "pending",
          value |-> [name |-> entry.key, version |-> entry.value]]

\* getLocalDepenencies up to its await: the manifest checks, then the .map
\* that starts one scan per declared dependency.
GetLocalDepenenciesStart ==
    /\ pc = "start"
    /\ LET err == ManifestError(packageJson, nodeModules) IN
       IF err # "none"
       THEN /\ Fail(err)
            /\ UNCHANGED <<scans, anyInvalid>>
       ELSE LET entries == packageJson.value.dependencies.entries IN
            \E exists \in [1..Len(entries) -> BOOLEAN] :
               /\ scans' = [i \in 1..Len(entries) |-> StartScan(entries[i], exists[i])]
               /\ anyInvalid' = \E i \in 1..Len(entries) : scans'[i].invalid
               /\ reported' = IF anyInvalid' THEN {"DependencyFolderMissing"} ELSE {}
               /\ pc' = "join"
    /\ UNCHANGED <<packageJson, nodeModules, exitOverride, dependenciesObject,
                   remoteResponse, mappedRemoteNativePackages, finalCompatibility>>

\* Promise.all has settled: one promise rejected, or all are fulfilled.
AnyRejected(ps) == \E i \in 1..Len(ps) : ps[i].state = "rejected"
JoinSettled(ps) == AnyRejected(ps) \/ \A i \in 1..Len(ps) : ps[i].state = "fulfilled"

\* promiseFiles(`./node_modules/${key}`) settles for dependency i.
ScanComplete(i) ==
    /\ pc \in {"join", "fetchRemote"}
    /\ ~(pc = "join" /\ JoinSettled(scans))
    /\ i \in 1..Len(scans)
    /\ scans[i].state = "pending"
    /\ \/ \E files \in FileListings :
            /\ scans' = [scans EXCEPT ![i].state = "fulfilled",
                            ![i].value = [name |-> @.name, version |-> @.version,
                                          native |-> HasNativeFiles(files)]]
            /\ UNCHANGED <<pc, reported>>
       \/ /\ reported' = reported \cup {"ScanFailed"}
          /\ IF exitOverride
             THEN /\ scans' = [scans EXCEPT ![i].state = "rejected"]
                  /\ UNCHANGED pc
             ELSE /\ pc' = "failed"
                  /\ UNCHANGED scans
    /\ UNCHANGED <<packageJson, nodeModules, exitOverride, anyInvalid,
                   dependenciesObject, remoteResponse, mappedRemoteNativePackages,
                   finalCompatibility>>

\* await Promise.all(...).catch(() => [])
JoinedValue(ps) ==
    IF AnyRejected(ps) THEN <<>> ELSE [i \in 1..Len(ps) |-> ps[i].value]

\* anyInvalid || dependenciesObject.find((a) => a.native === undefined)
ShouldAbort(invalid, deps) ==
    invalid \/ \E i \in 1..Len(deps) : "native" \notin DOMAIN deps[i]

\* The continuation of getLocalDepenencies after the await.
Join ==
    /\ pc = "join"
    /\ JoinSettled(scans)
    /\ dependenciesObject' = JoinedValue(scans)
    /\ pc' = IF ShouldAbort(anyInvalid, dependenciesObject') THEN "failed" ELSE "fetchRemote"
    /\ UNCHANGED <<packageJson, nodeModules, exitOverride, reported, scans, anyInvalid,
                   remoteResponse, mappedRemoteNativePackages, finalCompatibility>>

\* ------------------------------------------------ getRemoteDepenencies
Obj(name, version) == [t |-> "object", name |-> name, version |-> version]

\* Elements the store can hold in native_packages (untrusted data).
ValidElements == {Obj(Str(n), Str(v)) : n \in Names, v \in Versions}

InvalidElements ==
    {Num, Null,
     Obj(Num, Str("1.0.0")), Obj(Str(""), Str("1.0.0")),
     Obj(Str("A"), Undefined), Obj(Str("A"), Num)}

Array(items) == [t |-> "array", items |-> items]

NativePackagesValues ==
    {Null, Undefined}
    \cup {Array(items) : items \in SeqsUpTo(ValidElements \cup InvalidElements, MaxRemote)}

\* What the query on channels can resolve with: an error, a channel with no
\* bound version, or a version with its native_packages column.
RemoteResponses ==
    {[error |-> TRUE, data |-> Null],
     [error |-> FALSE, data |-> [t |-> "object", version |-> Null]]}
    \cup {[error |-> FALSE,
           data |-> [t |-> "object",
                     version |-> [t |-> "object", native_packages |-> np]]] :
            np \in NativePackagesValues}

\* One call of the forEach callback: the error it ends in, "none" if it returns.
ElementError(data) ==
    IF TypeOf(data) # "object" THEN "NativeMetadataMalformed"
    ELSE IF data.t # "object" THEN "TypeError"
    ELSE IF ~Truthy(data.name) \/ TypeOf(data.name) # "string"
        THEN "NativeMetadataMalformed"
    ELSE IF ~Truthy(data.version) \/ TypeOf(data.version) # "string"
        THEN "NativeMetadataMalformed"
    ELSE "none"

\* castedRemoteNativePackages.forEach(...): the error of the first element
\* that has one.
RECURSIVE ValidationError(_)
ValidationError(items) ==
    IF items = <<>> THEN "none"
    ELSE IF ElementError(Head(items)) # "none" THEN ElementError(Head(items))
    ELSE ValidationError(Tail(items))

\* Mutant of MetadataAbsent: an empty list counts as absent metadata.
MetadataAbsentOrEmpty(castedRemoteNativePackages) ==
    \/ ~Truthy(castedRemoteNativePackages)
    \/ (castedRemoteNativePackages.t = "array" /\ castedRemoteNativePackages.items = <<>>)

\* if (!castedRemoteNativePackages)
MetadataAbsent(castedRemoteNativePackages) == ~Truthy(castedRemoteNativePackages)

\* The error getRemoteDepenencies ends in for a response, "none" if it returns.
RemoteError(response) ==
    IF response.error THEN "ChannelLookupFailed"
    ELSE IF response.data.version.t # "object" THEN "NativeMetadataMissing"
    ELSE IF MetadataAbsent(response.data.version.native_packages)
        THEN "NativeMetadataMissing"
    ELSE ValidationError(response.data.version.native_packages.items)

\* Map.prototype.set on a Map kept as its entries in insertion order.
MapSet(m, key, value) ==
    IF \E i \in 1..Len(m) : m[i].key = key
    THEN [i \in 1..Len(m) |-> IF m[i].key = key THEN [key |-> key, value |-> value]
                                                ELSE m[i]]
    ELSE Append(m, [key |-> key, value |-> value])

\* new Map(items.map(a => [a.name, a]))
RECURSIVE NewMap(_, _)
NewMap(m, items) ==
    IF items = <<>> THEN m
    ELSE NewMap(MapSet(m, Head(items).name, Head(items)), Tail(items))

MapHas(m, key) == \E i \in 1..Len(m) : m[i].key = key

\* Map.prototype.get
MapGet(m, key) ==
    IF MapHas(m, key) THEN (CHOOSE e \in Range(m) : e.key = key).value ELSE Undefined

GetRemoteDepenencies ==
    /\ pc = "fetchRemote"
    /\ \E response \in RemoteResponses :
        /\ remoteResponse' = response
        /\ LET err == RemoteError(response) IN
           IF err # "none"
           THEN /\ Fail(err)
                /\ UNCHANGED mappedRemoteNativePackages
           ELSE /\ mappedRemoteNativePackages' =
                      NewMap(<<>>, response.data.version.native_packages.items)
                /\ pc' = "reconcile"
                /\ UNCHANGED reported
    /\ UNCHANGED <<packageJson, nodeModules, exitOverride, scans, anyInvalid,
                   dependenciesObject, finalCompatibility>>

\* ------------------------------------------------------ checkCompatibility
\* !!a.native
IsNative(a) == "native" \in DOMAIN a /\ a.native

\* Mutant of LocalEntry: a remote package counts as found only when its
\* version equals the local one.
LocalEntryVersionCompared(local, remote) ==
    LET remotePackage == MapGet(remote, local.name) IN
    IF Truthy(remotePackage) /\ remotePackage.version = local.version
    THEN [name |-> local.name, localVersion |-> local.version,
          remoteVersion |-> remotePackage.version]
    ELSE [name |-> local.name, localVersion |-> local.version,
          remoteVersion |-> Undefined]

\* The callback of the .map over the native local dependencies.
LocalEntry(local, remote) ==
    LET remotePackage == MapGet(remote, local.name) IN
    IF Truthy(remotePackage)
    THEN [name |-> local.name, localVersion |-> local.version,
          remoteVersion |-> remotePackage.version]
    ELSE [name |-> local.name, localVersion |-> local.version,
          remoteVersion |-> Undefined]

\* dependenciesObject.filter((a) => !!a.native).map(...)
LocalPass(deps, remote) ==
    LET natives == SelectSeq(deps, IsNative) IN
    [i \in 1..Len(natives) |-> LocalEntry(natives[i], remote)]

\* Mutant of NotInLocal: the element itself, not its name, is compared.
NotInLocalWholeElement(deps, remoteName) ==
    ~\E i \in 1..Len(deps) : deps[i] = remoteName

\* Mutant of NotInLocal: only the native local dependencies are searched.
NotInLocalNativeOnly(deps, remoteName) ==
    ~\E i \in 1..Len(deps) : IsNative(deps[i]) /\ deps[i].name = remoteName

\* dependenciesObject.find((a) => a.name === remoteName) === undefined
NotInLocal(deps, remoteName) == ~\E i \in 1..Len(deps) : deps[i].name = remoteName

\* removeNotInLocal
RemotePass(deps, remote) ==
    LET kept == SelectSeq(remote, LAMBDA e : NotInLocal(deps, e.key)) IN
    [i \in 1..Len(kept) |-> [name |-> kept[i].key, localVersion |-> Undefined,
                             remoteVersion |-> kept[i].value.version]]

\* The continuation of checkCompatibility after both awaits.
Reconcile ==
    /\ pc = "reconcile"
    /\ finalCompatibility' = LocalPass(dependenciesObject, mappedRemoteNativePackages)
                                \o RemotePass(dependenciesObject, mappedRemoteNativePackages)
    /\ pc' = "done"
    /\ UNCHANGED <<packageJson, nodeModules, exitOverride, reported, scans, anyInvalid,
                   dependenciesObject, remoteResponse, mappedRemoteNativePackages>>

Next ==
    \/ GetLocalDepenenciesStart
    \/ \E i \in 1..MaxDeps + 1 : ScanComplete(i)
    \/ Join
    \/ GetRemoteDepenencies
    \/ Reconcile

Spec == Init /\ [][Next]_vars

\* ---------------------------------------------------------------- claims
NamesOf(entries) == {entries[i].name : i \in 1..Len(entries)}
NativeNames == {dependenciesObject[i].name :
                  i \in {j \in 1..Len(dependenciesObject) : IsNative(dependenciesObject[j])}}
RemoteNames == {mappedRemoteNativePackages[i].key : i \in 1..Len(mappedRemoteNativePackages)}
NonNativeNames == {dependenciesObject[i].name :
                  i \in {j \in 1..Len(dependenciesObject) : ~IsNative(dependenciesObject[j])}}
EntriesNamed(n) == {i \in 1..Len(finalCompatibility) : finalCompatibility[i].name = n}
FetchedItems == remoteResponse.data.version.native_packages.items
Fetched == remoteResponse # NotFetched
FetchedArray ==
    /\ Fetched
    /\ ~remoteResponse.error
    /\ remoteResponse.data.version.t = "object"
    /\ remoteResponse.data.version.native_packages.t = "array"

\* C1: when checkCompatibility has returned, the names of finalCompatibility
\* are exactly the names of the native local dependencies together with the
\* names of the remote packages.
C1_Totality ==
    pc = "done" => NamesOf(finalCompatibility) = NativeNames \cup RemoteNames

\* C2: when checkCompatibility has returned, every remote package whose name
\* is not the name of a native local dependency has exactly one entry, with
\* no local version and the remote package's version.
C2_RemoteOnly ==
    pc = "done" =>
        \A e \in Range(mappedRemoteNativePackages) :
            e.key \notin NativeNames =>
                /\ Cardinality(EntriesNamed(e.key)) = 1
                /\ \A i \in EntriesNamed(e.key) :
                       finalCompatibility[i] = [name |-> e.key, localVersion |-> Undefined,
                                                remoteVersion |-> e.value.version]

\* The version of the last element of the fetched list named n: what a Map
\* built from the list holds for n.
RECURSIVE LastVersion(_, _)
LastVersion(items, n) ==
    IF items[Len(items)].name = n THEN items[Len(items)].version
    ELSE LastVersion(SubSeq(items, 1, Len(items) - 1), n)

\* C3: when checkCompatibility has returned, every native local dependency
\* has an entry with its declared version and, if a remote package has its
\* name, that package's version (equal to the local one or not), and
\* otherwise no remote version.
C3_LocalPass ==
    pc = "done" =>
        \A i \in 1..Len(dependenciesObject) :
            LET local == dependenciesObject[i] IN
            IsNative(local) =>
                IF \E k \in 1..Len(FetchedItems) : FetchedItems[k].name = local.name
                THEN \E j \in 1..Len(finalCompatibility) :
                        finalCompatibility[j] =
                            [name |-> local.name, localVersion |-> local.version,
                             remoteVersion |-> LastVersion(FetchedItems, local.name)]
                ELSE \E j \in 1..Len(finalCompatibility) :
                        finalCompatibility[j] =
                            [name |-> local.name, localVersion |-> local.version,
                             remoteVersion |-> Undefined]

\* A run that returned a Matched entry whose versions differ and a LocalOnly
\* entry.
C3_Witness ==
    /\ pc = "done"
    /\ \E i, j \in 1..Len(finalCompatibility) :
        /\ finalCompatibility[i].localVersion.t = "string"
        /\ finalCompatibility[i].remoteVersion.t = "string"
        /\ finalCompatibility[i].localVersion # finalCompatibility[i].remoteVersion
        /\ finalCompatibility[j].localVersion.t = "string"
        /\ finalCompatibility[j].remoteVersion = Undefined

\* C4: when checkCompatibility has returned, no name is the name of two
\* entries of finalCompatibility (so none is both in the local pass's
\* output and in the remote pass's).
C4_NoDuplicateName ==
    pc = "done" =>
        \A i, j \in 1..Len(finalCompatibility) :
            finalCompatibility[i].name = finalCompatibility[j].name => i = j

\* A run that returned entries of both passes, with a remote package named
\* like a native local dependency.
C4_Witness ==
    /\ pc = "done"
    /\ NativeNames \cap RemoteNames # {}
    /\ \E i, j \in 1..Len(finalCompatibility) :
        /\ finalCompatibility[i].localVersion # Undefined
        /\ finalCompatibility[j].localVersion = Undefined

\* C5: when checkCompatibility has returned, the name of a local dependency
\* scanned as non-native is the name of no entry of finalCompatibility.
C5_NonNativeExcluded ==
    pc = "done" =>
        \A i \in 1..Len(dependenciesObject) :
            ("native" \in DOMAIN dependenciesObject[i] /\ ~dependenciesObject[i].native)
                => dependenciesObject[i].name \notin NamesOf(finalCompatibility)

\* A run that returned with a non-native local dependency named like a
\* remote package, and at least one entry.
C5_Witness ==
    /\ pc = "done"
    /\ NonNativeNames \cap RemoteNames # {}
    /\ finalCompatibility # <<>>

\* An element that fails one of the three checks the claim lists: it is not
\* an object (null included), or has no non-empty string name, or has no
\* non-empty string version.
ElementMalformed(data) ==
    \/ data.t # "object"
    \/ data.name.t # "string" \/ data.name.v = ""
    \/ data.version.t # "string" \/ data.version.v = ""

\* C6: once a native_packages list is fetched, if one of its elements is
\* malformed the run has ended reporting NativeMetadataMalformed and no
\* remote map exists; a remote map exists only if no element is malformed.
C6_AllOrNothing ==
    FetchedArray =>
        IF \E k \in 1..Len(FetchedItems) : ElementMalformed(FetchedItems[k])
        THEN /\ pc = "failed"
             /\ "NativeMetadataMalformed" \in reported
             /\ mappedRemoteNativePackages = <<>>
        ELSE pc \in {"reconcile", "done"}

RemoteErrors ==
    {"ChannelLookupFailed", "NativeMetadataMissing", "NativeMetadataMalformed", "TypeError"}

\* C7: once the channel query has answered without error, absent metadata
\* (no bound version, or a null/undefined native_packages) ends the run with
\* NativeMetadataMissing and no reconciliation; an empty list gives an empty
\* remote map, and the reconciliation then returns exactly one LocalOnly
\* entry per native local dependency.
C7_MissingVersusEmpty ==
    (Fetched /\ ~remoteResponse.error) =>
        /\ (remoteResponse.data.version.t # "object"
              \/ remoteResponse.data.version.native_packages.t \in {"null", "undefined"})
            => /\ pc = "failed"
               /\ reported \cap RemoteErrors = {"NativeMetadataMissing"}
               /\ mappedRemoteNativePackages = <<>>
               /\ finalCompatibility = <<>>
        /\ (FetchedArray /\ FetchedItems = <<>>)
            => /\ pc \in {"reconcile", "done"}
               /\ mappedRemoteNativePackages = <<>>
               /\ pc = "done" =>
                    /\ NamesOf(finalCompatibility) = NativeNames
                    /\ Len(finalCompatibility) = Cardinality(NativeNames)
                    /\ \A i \in 1..Len(finalCompatibility) :
                        /\ finalCompatibility[i].remoteVersion = Undefined
                        /\ finalCompatibility[i].localVersion.t = "string"

\* A run that fetched an empty list and returned with a native local
\* dependency.
C7_Witness ==
    /\ pc = "done"
    /\ FetchedArray
    /\ FetchedItems = <<>>
    /\ NativeNames # {}

\* C8: once the scans are started, if the folder of a declared dependency is
\* missing then getLocalDepenencies has not returned and never does: the
\* run is waiting for the scans or has failed, DependencyFolderMissing is
\* reported, nothing was fetched or reconciled, and the dependency carries
\* no native flag.
C8_MissingFolderFatal ==
    \A i \in 1..Len(scans) :
        ~scans[i].folderExists =>
            /\ pc \in {"join", "failed"}
            /\ "DependencyFolderMissing" \in reported
            /\ remoteResponse = NotFetched
            /\ finalCompatibility = <<>>
            /\ "native" \notin DOMAIN scans[i].value
            /\ (JoinSettled(scans) /\ dependenciesObject # <<>>) => pc = "failed"

\* A run that failed after the join with one folder missing and another
\* dependency scanned successfully.
C8_Witness ==
    /\ pc = "failed"
    /\ dependenciesObject # <<>>
    /\ \E i, j \in 1..Len(scans) :
        /\ ~scans[i].folderExists
        /\ scans[j].folderExists
        /\ scans[j].state = "fulfilled"
        /\ "native" \in DOMAIN scans[j].value

\* C9: once the file listing of a dependency has errored, getLocalDepenencies
\* has not returned a list (partial or empty) to checkCompatibility and the
\* run never gets to the remote fetch or the reconciliation.
C9_ScanErrorFatal ==
    "ScanFailed" \in reported => pc \in {"join", "failed"}

\* The entries of a manifest that has a dependencies mapping.
HasDependencies ==
    /\ packageJson.exists
    /\ packageJson.parses
    /\ packageJson.value.t = "object"
    /\ packageJson.value.dependencies.t = "object"
DeclaredEntries == packageJson.value.dependencies.entries

C11_JoinPoint ==
    pc \in {"fetchRemote", "reconcile", "done"} =>
        /\ \A i \in 1..Len(scans) : scans[i].state = "fulfilled"
        /\ "ScanFailed" \notin reported
        /\ Len(dependenciesObject) = Len(DeclaredEntries)
        /\ \A i \in 1..Len(dependenciesObject) :
            /\ dependenciesObject[i] = scans[i].value
            /\ dependenciesObject[i].name = DeclaredEntries[i].key
            /\ dependenciesObject[i].version = DeclaredEntries[i].value
            /\ "native" \in DOMAIN dependenciesObject[i]

====
